---- MODULE Spec2Model ----
(***************************************************************************)
(* Model of lazy-image-comparer (src/src/lib.rs): block averaging of a     *)
(* raster (average_gb_blocks), the scalar and the 4-lane chi-square        *)
(* comparators (compare_images_chisquare, compare_images_chisquare_glam)   *)
(* and smallest_dimensions.  The functions are pure; each is an operator   *)
(* computed the way the code computes it, and the actions apply them to    *)
(* inputs drawn by Init.                                                   *)
(***************************************************************************)
EXTENDS Integers, Sequences, FiniteSets, TLC

VARIABLES image, image2, x_segments, y_segments,
          blocks1, blocks2, result_std, result_simd, pc,
          dim1, dim2, overflow_checks, smallest

vars == <<image, image2, x_segments, y_segments,
          blocks1, blocks2, result_std, result_simd, pc,
          dim1, dim2, overflow_checks, smallest>>

(***************************************************************************)
(* Bounds of the checked input space.                                      *)
(***************************************************************************)
\* largest number of pixels (width * height) of an enumerated raster
MaxPixels == 7
\* largest segment count tried per axis (0 and counts above the raster's
\* extent are tried too)
MaxSeg == 3
\* longest grid handed directly to the comparators
MaxBlocks == 8
\* grids up to this length are enumerated exhaustively; longer ones repeat
\* a prefix of this length
MaxPeriod == 4
\* largest small raster side tried by smallest_dimensions
MaxSide == 3

(***************************************************************************)
(* Program constants.                                                      *)
(***************************************************************************)
\* channels of one block average, [u8; 3]
Channels == 3
\* lanes of a DVec4, the chunk size of .chunks(4)
Lanes == 4
\* range of a u8
U8Range == 256
\* half of a u32: 2^16 (TLC's integers stop short of 2^32, so u32 products
\* are computed on 16-bit limbs)
Limb == 65536

Min(a, b) == IF a < b THEN a ELSE b

(***************************************************************************)
(* Outcomes of a call.                                                     *)
(***************************************************************************)
NotCalled == [kind |-> "not_called"]
Returned(v) == [kind |-> "return", value |-> v]
\* a Rust panic: the call unwinds and returns nothing; done counts the
\* loop iterations completed before it
Panicked(site, done) == [kind |-> "panic", site |-> site, done |-> done]

(***************************************************************************)
(* Rasters: DynamicImage seen through dimensions() and get_pixel().        *)
(***************************************************************************)
Coords(w, h) == (0 .. w - 1) \X (0 .. h - 1)

\* RGBA pixels the enumerated rasters are painted with
Palette == { <<0, 3, 255, 255>>, <<255, 254, 2, 0>> }

RasterDims == { d \in (1 .. MaxPixels) \X (1 .. MaxPixels) : d[1] * d[2] <= MaxPixels }

Uniform(w, h, px) == [width |-> w, height |-> h, pixels |-> [c \in Coords(w, h) |-> px]]

\* every raster of at most MaxPixels pixels over the palette, and one raster
\* of width 101
Rasters ==
  UNION { { [width |-> d[1], height |-> d[2], pixels |-> p] :
              p \in [Coords(d[1], d[2]) -> Palette] } : d \in RasterDims }
  \cup { Uniform(101, 1, <<255, 254, 2, 0>>) }

\* img mirrored left to right
Mirror(img) ==
  [img EXCEPT !.pixels = [c \in Coords(img.width, img.height) |->
                            img.pixels[<<img.width - 1 - c[1], c[2]>>]]]

\* the second image of a comparison: the same raster, its mirror image, or
\* a fixed raster
Companions(img) == { img, Mirror(img), Uniform(2, 3, <<0, 3, 255, 255>>) }

XSegments == (0 .. MaxSeg) \cup {10}
YSegments == 0 .. MaxSeg

dimensions(img) == <<img.width, img.height>>

InBounds(img, px, py) == px >= 0 /\ px < img.width /\ py >= 0 /\ py < img.height

(***************************************************************************)
(* average_gb_blocks                                                       *)
(***************************************************************************)
\* img_width / x_segments as u32 (x_segments > 0)
block_width(img_width, xs) == img_width \div xs
block_height(img_height, ys) == img_height \div ys

\* mutant: the last column does not absorb the remainder
current_block_width_Trunc(img_width, xs, x) == block_width(img_width, xs)
current_block_width(img_width, xs, x) ==
  IF x = xs - 1
    THEN img_width - (block_width(img_width, xs) * (xs - 1))
    ELSE block_width(img_width, xs)

\* mutant: the last row is one pixel short
current_block_height_Short(img_height, ys, y) ==
  IF y = ys - 1
    THEN img_height - (block_height(img_height, ys) * (ys - 1)) - 1
    ELSE block_height(img_height, ys)
current_block_height(img_height, ys, y) ==
  IF y = ys - 1
    THEN img_height - (block_height(img_height, ys) * (ys - 1))
    ELSE block_height(img_height, ys)

\* the k-th get_pixel coordinate of block (x, y): i is the outer loop, j the
\* inner one
PixelAt(img, xs, ys, x, y, k) ==
  LET cbh == current_block_height(img.height, ys, y)
  IN  << x * block_width(img.width, xs) + (k \div cbh),
         y * block_height(img.height, ys) + (k % cbh) >>

\* number of (i, j) iterations of block (x, y)
BlockIterations(img, xs, ys, x, y) ==
  current_block_width(img.width, xs, x) * current_block_height(img.height, ys, y)

\* the coordinates block (x, y) passes to get_pixel, in order
BlockReads(img, xs, ys, x, y) ==
  [ n \in 1 .. BlockIterations(img, xs, ys, x, y) |-> PixelAt(img, xs, ys, x, y, n - 1) ]

\* the sums and the pixel count after the two inner loops over `reads`,
\* from position n on; get_pixel panics outside the raster
RECURSIVE AccumulateBlock(_, _, _, _)
AccumulateBlock(img, reads, n, acc) ==
  IF n > Len(reads) THEN acc
  ELSE IF ~InBounds(img, reads[n][1], reads[n][2]) THEN [acc EXCEPT !.oob = TRUE]
  ELSE LET pixel == img.pixels[reads[n]]
       IN  AccumulateBlock(img, reads, n + 1,
             [ sum_r |-> acc.sum_r + pixel[1],
               sum_g |-> acc.sum_g + pixel[2],
               sum_b |-> acc.sum_b + pixel[3],
               pixel_count |-> acc.pixel_count + 1,
               oob |-> FALSE ])

\* mutant: the quotient is rounded up
channel_average_Ceil(sum, pixel_count) == ((sum + pixel_count - 1) \div pixel_count) % U8Range
\* (sum / pixel_count) as u8, pixel_count > 0
channel_average(sum, pixel_count) == (sum \div pixel_count) % U8Range

\* sum_r, sum_g, sum_b and pixel_count of block (x, y) after its pixel loops
BlockAccumulator(img, xs, ys, x, y) ==
  AccumulateBlock(img, BlockReads(img, xs, ys, x, y), 1,
    [sum_r |-> 0, sum_g |-> 0, sum_b |-> 0, pixel_count |-> 0, oob |-> FALSE])

\* one iteration of the x loop: the block's outcome
BlockAverage(img, xs, ys, x, y) ==
  LET acc == BlockAccumulator(img, xs, ys, x, y)
  IN  IF acc.oob THEN Panicked("get_pixel out of bounds", acc.pixel_count)
      ELSE IF acc.pixel_count = 0 THEN Panicked("attempt to divide by zero", 0)
      ELSE Returned(<< channel_average(acc.sum_r, acc.pixel_count),
                       channel_average(acc.sum_g, acc.pixel_count),
                       channel_average(acc.sum_b, acc.pixel_count) >>)

\* mutant: x is the outer loop (column-major)
BlockOrder_ColumnMajor(xs, ys) == [ n \in 1 .. xs * ys |-> << (n - 1) \div ys, (n - 1) % ys >> ]
\* the (x, y) of the blocks in the order they are pushed: y outer, x inner
BlockOrder(xs, ys) == [ n \in 1 .. xs * ys |-> << (n - 1) % xs, (n - 1) \div xs >> ]

average_gb_blocks(img, xs, ys) ==
  IF xs = 0 \/ ys = 0 THEN Panicked("attempt to divide by zero", 0)
  ELSE
    LET order == BlockOrder(xs, ys)
        outcome == [ n \in 1 .. Len(order) |-> BlockAverage(img, xs, ys, order[n][1], order[n][2]) ]
        failed == { n \in 1 .. Len(order) : outcome[n].kind = "panic" }
    IN  IF failed # {}
          THEN LET first == CHOOSE n \in failed : \A m \in failed : n <= m
               IN  Panicked(outcome[first].site, first - 1)
          ELSE Returned([ n \in 1 .. Len(order) |-> outcome[n].value ])

(***************************************************************************)
(* f64 values.  Every operand of the comparators is an integer below 2^53, *)
(* so sums and squares are exact and a quotient is the correctly rounded   *)
(* value of an exact fraction: it is kept as that fraction in lowest       *)
(* terms.  0.0 / 0.0 is NaN and x / 0.0 is infinite for x > 0.             *)
(***************************************************************************)
RECURSIVE GCD(_, _)
GCD(a, b) == IF b = 0 THEN a ELSE GCD(b, a % b)

NaN == [class |-> "nan", num |-> 0, den |-> 0]
Infinity == [class |-> "inf", num |-> 1, den |-> 0]
Finite(n, d) == [class |-> "finite", num |-> n \div GCD(n, d), den |-> d \div GCD(n, d)]
Zero == Finite(0, 1)

\* a / b on f64 for integers a >= 0, b >= 0
F64Div(a, b) ==
  IF b = 0 THEN (IF a = 0 THEN NaN ELSE Infinity) ELSE Finite(a, b)

\* a == b on f64: NaN equals nothing
F64Eq(a, b) == a.class # "nan" /\ b.class # "nan" /\ a = b

(***************************************************************************)
(* compare_images_chisquare                                                *)
(***************************************************************************)
\* mutant: the iteration runs to the longer sequence, a missing element
\* read as the first element of the longer one
Zip_Longest(a, b) ==
  [ n \in 1 .. (IF Len(a) > Len(b) THEN Len(a) ELSE Len(b)) |->
      << IF n <= Len(a) THEN a[n] ELSE b[1],
         IF n <= Len(b) THEN b[n] ELSE a[1] >> ]
\* img1.iter().zip(img2.iter()): stops at the shorter grid
Zip(a, b) == [ n \in 1 .. Min(Len(a), Len(b)) |-> << a[n], b[n] >> ]

\* mutant: the difference is not squared
SquaredDiff_Signed(expected, observed) == observed - expected
\* (observed - expected).powi(2)
SquaredDiff(expected, observed) == (observed - expected) * (observed - expected)

\* the two loops from scalar comparison k on (block k / 3, channel k % 3)
RECURSIVE ChiSquareLoop(_, _, _)
ChiSquareLoop(pairs, k, acc) ==
  IF k >= Channels * Len(pairs) THEN acc
  ELSE LET block1 == pairs[(k \div Channels) + 1][1]
           block2 == pairs[(k \div Channels) + 1][2]
           i == (k % Channels) + 1
       IN  ChiSquareLoop(pairs, k + 1,
             [ chi_square |-> acc.chi_square + SquaredDiff(block1[i], block2[i]),
               total_count |-> acc.total_count + 1 ])

compare_images_chisquare(img1, img2) ==
  LET acc == ChiSquareLoop(Zip(img1, img2), 0, [chi_square |-> 0, total_count |-> 0])
  IN  Returned(F64Div(acc.chi_square, acc.total_count))

(***************************************************************************)
(* compare_images_chisquare_glam                                           *)
(***************************************************************************)
\* bytemuck::cast_slice: the grid as its channel bytes
cast_slice(img) ==
  [ k \in 1 .. Channels * Len(img) |-> img[((k - 1) \div Channels) + 1][((k - 1) % Channels) + 1] ]

\* mutant: the length assertions are missing
LengthAsserts_Missing(img1, img2) == "pass"
\* assert_eq!(img1.len()%4, 0); assert_eq!(img2.len()%4, 0);
LengthAsserts(img1, img2) ==
  IF Len(img1) % Lanes # 0 THEN "assert_eq img1.len()%4"
  ELSE IF Len(img2) % Lanes # 0 THEN "assert_eq img2.len()%4"
  ELSE "pass"

\* the chunk loop from chunk c on; a chunk shorter than four pairs makes
\* chunk.next().unwrap() panic
RECURSIVE LaneLoop(_, _, _)
LaneLoop(pairs, c, chi_square) ==
  IF Lanes * c >= Len(pairs) THEN Returned(chi_square)
  ELSE IF Len(pairs) - Lanes * c < Lanes THEN Panicked("unwrap on None", c)
  ELSE LaneLoop(pairs, c + 1,
         [ l \in 1 .. Lanes |->
             chi_square[l] + SquaredDiff(pairs[Lanes * c + l][1], pairs[Lanes * c + l][2]) ])

\* mutant: the last lane is left out of the sum
element_sum_Three(v) == v[1] + v[2] + v[3]
element_sum(v) == v[1] + v[2] + v[3] + v[4]

compare_images_chisquare_glam(img1, img2) ==
  IF LengthAsserts(img1, img2) # "pass" THEN Panicked(LengthAsserts(img1, img2), 0)
  ELSE
    LET total_count == Min(Len(img1), Len(img2)) * Channels
        lanes == LaneLoop(Zip(cast_slice(img1), cast_slice(img2)), 0, [l \in 1 .. Lanes |-> 0])
    IN  IF lanes.kind = "panic" THEN lanes
        ELSE Returned(F64Div(element_sum(lanes.value), total_count))

\* grids handed to the comparators
BlockValues == { <<0, 128, 255>>, <<255, 127, 3>> }

Cycle(base, n) == [ k \in 1 .. n |-> base[((k - 1) % Len(base)) + 1] ]

GridInputs ==
  { <<>> } \cup
  UNION { { Cycle(base, n) : n \in 1 .. MaxBlocks } :
          base \in UNION { [1 .. p -> BlockValues] : p \in 1 .. MaxPeriod } }

(***************************************************************************)
(* smallest_dimensions.  width * height is a u32 product: with overflow    *)
(* checks (debug profile) a product of 2^32 or more panics, without them   *)
(* (release profile) it wraps modulo 2^32.  Products are kept as 16-bit    *)
(* limbs, most significant first.                                          *)
(***************************************************************************)
\* x * y for x, y < 2^16 as <<high limb, low limb>>
Mul16(x, y) ==
  LET p == x * (y \div 256)
      t == (p % 256) * 256 + x * (y % 256)
  IN  << (p \div 256) + (t \div Limb), t % Limb >>

\* the exact product of a and b (each below 2^31) on four limbs
WideMul(a, b) ==
  LET p00 == Mul16(a % Limb, b % Limb)
      p01 == Mul16(a % Limb, b \div Limb)
      p10 == Mul16(a \div Limb, b % Limb)
      p11 == Mul16(a \div Limb, b \div Limb)
      t1 == p00[1] + p01[2] + p10[2]
      t2 == p01[1] + p10[1] + p11[2] + (t1 \div Limb)
  IN  << p11[1] + (t2 \div Limb), t2 % Limb, t1 % Limb, p00[2] >>

\* a < b on limb sequences of equal length
RECURSIVE LimbsLess(_, _)
LimbsLess(a, b) ==
  IF a = <<>> THEN FALSE
  ELSE IF Head(a) # Head(b) THEN Head(a) < Head(b)
  ELSE LimbsLess(Tail(a), Tail(b))

\* the u32 product: its two low limbs, or the overflow panic
u32_mul(a, b) ==
  LET wide == WideMul(a, b)
  IN  IF (wide[1] # 0 \/ wide[2] # 0) /\ overflow_checks
        THEN Panicked("attempt to multiply with overflow", 0)
        ELSE Returned(<< wide[3], wide[4] >>)

\* width1 * height1 < width2 * height2
AreaLess(area1, area2) == LimbsLess(area1, area2)

smallest_dimensions(img1, img2) ==
  LET area1 == u32_mul(img1.width, img1.height)
      area2 == u32_mul(img2.width, img2.height)
  IN  IF area1.kind = "panic" THEN area1
      ELSE IF area2.kind = "panic" THEN area2
      ELSE IF AreaLess(area1.value, area2.value)
        THEN Returned(<< 0, img1.width, img1.height >>)
        ELSE Returned(<< 1, img2.width, img2.height >>)

\* sides of the rasters handed to smallest_dimensions
Sides == (0 .. MaxSide) \cup { 65535, 65536, 65537 }
Extents == [width : Sides, height : Sides]

(***************************************************************************)
(* Specifications.  A variable a specification does not use stays Idle.    *)
(***************************************************************************)
Idle == [kind |-> "idle"]

\* Spec: the pipeline of the tests, two images averaged on the same grid
\* and the two grids compared.
Init ==
  /\ image \in Rasters
  /\ image2 \in Companions(image)
  /\ x_segments \in XSegments
  /\ y_segments \in YSegments
  /\ blocks1 = NotCalled
  /\ blocks2 = NotCalled
  /\ result_std = NotCalled
  /\ result_simd = NotCalled
  /\ pc = "average1"
  /\ dim1 = Idle /\ dim2 = Idle /\ overflow_checks = FALSE /\ smallest = Idle

\* let blocks1 = average_gb_blocks(&img1, x_segments, y_segments);
Average1 ==
  /\ pc = "average1"
  /\ blocks1' = average_gb_blocks(image, x_segments, y_segments)
  /\ pc' = IF blocks1'.kind = "panic" THEN "panicked" ELSE "average2"
  /\ UNCHANGED <<image, image2, x_segments, y_segments, blocks2, result_std,
                 result_simd, dim1, dim2, overflow_checks, smallest>>

\* let blocks2 = average_gb_blocks(&img2, x_segments, y_segments);
Average2 ==
  /\ pc = "average2"
  /\ blocks2' = average_gb_blocks(image2, x_segments, y_segments)
  /\ pc' = IF blocks2'.kind = "panic" THEN "panicked" ELSE "compare_std"
  /\ UNCHANGED <<image, image2, x_segments, y_segments, blocks1, result_std,
                 result_simd, dim1, dim2, overflow_checks, smallest>>

\* let result_std = compare_images_chisquare(&blocks1, &blocks2);
CompareStd ==
  /\ pc = "compare_std"
  /\ result_std' = compare_images_chisquare(blocks1.value, blocks2.value)
  /\ pc' = "compare_simd"
  /\ UNCHANGED <<image, image2, x_segments, y_segments, blocks1, blocks2,
                 result_simd, dim1, dim2, overflow_checks, smallest>>

\* let result_simd = compare_images_chisquare_glam(&blocks1, &blocks2);
CompareSimd ==
  /\ pc = "compare_simd"
  /\ result_simd' = compare_images_chisquare_glam(blocks1.value, blocks2.value)
  /\ pc' = IF result_simd'.kind = "panic" THEN "panicked" ELSE "done"
  /\ UNCHANGED <<image, image2, x_segments, y_segments, blocks1, blocks2,
                 result_std, dim1, dim2, overflow_checks, smallest>>

Next == Average1 \/ Average2 \/ CompareStd \/ CompareSimd

Spec == Init /\ [][Next]_vars

\* SpecCmp: the two comparators applied to grids supplied by the caller.
InitCmp ==
  /\ blocks1 \in { Returned(g) : g \in GridInputs }
  /\ blocks2 \in { Returned(g) : g \in GridInputs }
  /\ result_std = NotCalled
  /\ result_simd = NotCalled
  /\ pc = "compare"
  /\ image = Idle /\ image2 = Idle /\ x_segments = 0 /\ y_segments = 0
  /\ dim1 = Idle /\ dim2 = Idle /\ overflow_checks = FALSE /\ smallest = Idle

CallScalar ==
  /\ pc = "compare"
  /\ result_std = NotCalled
  /\ result_std' = compare_images_chisquare(blocks1.value, blocks2.value)
  /\ UNCHANGED <<image, image2, x_segments, y_segments, blocks1, blocks2,
                 result_simd, pc, dim1, dim2, overflow_checks, smallest>>

CallGlam ==
  /\ pc = "compare"
  /\ result_simd = NotCalled
  /\ result_simd' = compare_images_chisquare_glam(blocks1.value, blocks2.value)
  /\ UNCHANGED <<image, image2, x_segments, y_segments, blocks1, blocks2,
                 result_std, pc, dim1, dim2, overflow_checks, smallest>>

NextCmp == CallScalar \/ CallGlam

SpecCmp == InitCmp /\ [][NextCmp]_vars

\* SpecDim: smallest_dimensions applied to two rasters of the given extents,
\* under either build profile.
InitDim ==
  /\ dim1 \in Extents
  /\ dim2 \in Extents
  /\ overflow_checks \in BOOLEAN
  /\ smallest = NotCalled
  /\ pc = "dimensions"
  /\ image = Idle /\ image2 = Idle /\ x_segments = 0 /\ y_segments = 0
  /\ blocks1 = Idle /\ blocks2 = Idle /\ result_std = Idle /\ result_simd = Idle

CallSmallest ==
  /\ pc = "dimensions"
  /\ smallest = NotCalled
  /\ smallest' = smallest_dimensions(dim1, dim2)
  /\ UNCHANGED <<image, image2, x_segments, y_segments, blocks1, blocks2,
                 result_std, result_simd, pc, dim1, dim2, overflow_checks>>

NextDim == CallSmallest

SpecDim == InitDim /\ [][NextDim]_vars

(***************************************************************************)
(* Properties of average_gb_blocks, checked under Spec on the first image. *)
(***************************************************************************)
Range(f) == { f[n] : n \in DOMAIN f }

RECURSIVE SetSum(_, _)
\* the sum of F[e] over the elements e of the finite set S
SetSum(S, F) ==
  IF S = {} THEN 0
  ELSE LET e == CHOOSE e \in S : TRUE IN F[e] + SetSum(S \ {e}, F)

Averaged == pc # "average1"

ValidGrid ==
  /\ x_segments >= 1 /\ x_segments <= image.width
  /\ y_segments >= 1 /\ y_segments <= image.height

Cells == (0 .. x_segments - 1) \X (0 .. y_segments - 1)

\* the width the data model gives column x, and the height it gives row y
ColumnWidth(x) ==
  IF x = x_segments - 1
    THEN image.width - (x_segments - 1) * (image.width \div x_segments)
    ELSE image.width \div x_segments
RowHeight(y) ==
  IF y = y_segments - 1
    THEN image.height - (y_segments - 1) * (image.height \div y_segments)
    ELSE image.height \div y_segments

\* the pixels of the raster that belong to cell b: the cell starts at
\* (x * block_width, y * block_height) and the last column and the last row
\* run to the raster's edge
Rect(b) ==
  { p \in Coords(image.width, image.height) :
      /\ p[1] >= b[1] * (image.width \div x_segments)
      /\ (b[1] = x_segments - 1 \/ p[1] < (b[1] + 1) * (image.width \div x_segments))
      /\ p[2] >= b[2] * (image.height \div y_segments)
      /\ (b[2] = y_segments - 1 \/ p[2] < (b[2] + 1) * (image.height \div y_segments)) }

ReadsOf(b) == BlockReads(image, x_segments, y_segments, b[1], b[2])

\* the columns of the raster that cell b reads
ColumnsRead(b) == { r[1] : r \in Range(ReadsOf(b)) }
RowsRead(b) == { r[2] : r \in Range(ReadsOf(b)) }

\* C2: with 1 <= x_segments <= W and 1 <= y_segments <= H the blocks
\* partition the raster: every block counts at least one pixel, every pixel
\* of the raster is read once by exactly one block, nothing outside the
\* raster is read, all columns but the last are floor(W / x_segments) wide,
\* the last one takes the rest, and the widths sum to W (likewise for rows).
C2_BlocksPartitionRaster ==
  (Averaged /\ ValidGrid) =>
    /\ blocks1.kind = "return"
    /\ \A b \in Cells :
         /\ BlockAccumulator(image, x_segments, y_segments, b[1], b[2]).pixel_count > 0
         /\ BlockAccumulator(image, x_segments, y_segments, b[1], b[2]).pixel_count
              = Len(ReadsOf(b))
         /\ Cardinality(Range(ReadsOf(b))) = Len(ReadsOf(b))
         /\ \A r \in Range(ReadsOf(b)) : InBounds(image, r[1], r[2])
         /\ Cardinality(ColumnsRead(b)) = ColumnWidth(b[1])
         /\ Cardinality(RowsRead(b)) = RowHeight(b[2])
    /\ \A p \in Coords(image.width, image.height) :
         Cardinality({ b \in Cells : p \in Range(ReadsOf(b)) }) = 1
    /\ SetSum(0 .. x_segments - 1, [x \in 0 .. x_segments - 1 |->
                Cardinality(ColumnsRead(<<x, 0>>))]) = image.width
    /\ SetSum(0 .. y_segments - 1, [y \in 0 .. y_segments - 1 |->
                Cardinality(RowsRead(<<0, y>>))]) = image.height

\* a raster of width 101 averaged in 10 columns: nine of width 10, one of 11
C2_Witness ==
  /\ Averaged /\ ValidGrid /\ blocks1.kind = "return"
  /\ image.width = 101 /\ x_segments = 10
  /\ \A x \in 0 .. 8 : Cardinality(ColumnsRead(<<x, 0>>)) = 10
  /\ Cardinality(ColumnsRead(<<9, 0>>)) = 11

\* C3: with a segment count of 0, or one above the raster's extent, the
\* call returns an InvalidGridDimensions error value: no grid, no panic.
C3_InvalidGridIsAnErrorValue ==
  (Averaged /\ ~ValidGrid) =>
    /\ blocks1.kind = "error"
    /\ blocks1.error = "InvalidGridDimensions"

\* C4: with valid grid dimensions the call returns x_segments * y_segments
\* triples, and when x_segments divides W and y_segments divides H every
\* block counts (W / x_segments) * (H / y_segments) pixels.
C4_LengthAndEqualArea ==
  (Averaged /\ ValidGrid) =>
    /\ blocks1.kind = "return"
    /\ Len(blocks1.value) = x_segments * y_segments
    /\ \A n \in 1 .. Len(blocks1.value) :
         /\ Len(blocks1.value[n]) = Channels
         /\ \A c \in 1 .. Channels : blocks1.value[n][c] \in 0 .. 255
    /\ (image.width % x_segments = 0 /\ image.height % y_segments = 0) =>
         \A b \in Cells :
           BlockAccumulator(image, x_segments, y_segments, b[1], b[2]).pixel_count
             = (image.width \div x_segments) * (image.height \div y_segments)

\* several blocks of several pixels each, the grid dividing the raster evenly
C4_Witness ==
  /\ Averaged /\ ValidGrid /\ blocks1.kind = "return"
  /\ x_segments = 3 /\ y_segments = 1 /\ image.width = 3 /\ image.height = 2
  /\ Len(blocks1.value) = 3
  /\ BlockAccumulator(image, x_segments, y_segments, 2, 0).pixel_count = 2

Channel(c) == [ p \in Coords(image.width, image.height) |-> image.pixels[p][c] ]

ChannelValues(b, c) == { image.pixels[p][c] : p \in Rect(b) }

\* the raster with every alpha value replaced by a
WithAlpha(img, a) ==
  [img EXCEPT !.pixels = [p \in Coords(img.width, img.height) |->
                            << img.pixels[p][1], img.pixels[p][2], img.pixels[p][3], a >>]]

\* C8: with valid grid dimensions the entry at index y * x_segments + x is,
\* per channel, floor(sum over the pixels of block (x, y) / their number);
\* it lies between the least and the greatest channel value in the block,
\* so it is at most 255 and the conversion to u8 changes nothing; alpha has
\* no influence.
C8_RowMajorFloorAverage ==
  (Averaged /\ ValidGrid) =>
    /\ blocks1.kind = "return"
    /\ \A b \in Cells : \A c \in 1 .. Channels :
         LET entry == blocks1.value[b[2] * x_segments + b[1] + 1][c]
             mean == SetSum(Rect(b), Channel(c)) \div Cardinality(Rect(b))
         IN  /\ Rect(b) # {}
             /\ entry = mean
             /\ mean <= 255
             /\ \A v \in ChannelValues(b, c) : \A w \in ChannelValues(b, c) :
                  (\A u \in ChannelValues(b, c) : v <= u /\ u <= w) =>
                     (v <= entry /\ entry <= w)
    /\ \A a \in {0, 128, 255} :
         average_gb_blocks(WithAlpha(image, a), x_segments, y_segments) = blocks1

\* a grid with several columns and rows in which a block's mean is
\* truncated and two blocks of the first row differ
C8_Witness ==
  /\ Averaged /\ ValidGrid /\ blocks1.kind = "return"
  /\ x_segments >= 2 /\ y_segments >= 2
  /\ blocks1.value[1] # blocks1.value[2]
  /\ \E b \in Cells : \E c \in 1 .. Channels :
       SetSum(Rect(b), Channel(c)) % Cardinality(Rect(b)) # 0

\* C5: for two non-empty grids of equal length compare_images_chisquare
\* returns exactly 0.0 if and only if the grids are identical; a raster
\* averaged n by n and compared with itself scores exactly 0.0.
C5_ZeroIffIdentical ==
  (result_std.kind = "return" /\ blocks1.kind = "return" /\ blocks2.kind = "return"
     /\ Len(blocks1.value) = Len(blocks2.value) /\ Len(blocks1.value) > 0) =>
    /\ (result_std.value = Zero) <=> (blocks1.value = blocks2.value)
    /\ (image2 = image /\ x_segments = y_segments) => result_std.value = Zero

\* both cases occur: a raster against itself, n by n
C5_Witness ==
  /\ result_std.kind = "return" /\ image2 = image
  /\ x_segments = 2 /\ y_segments = 2
  /\ blocks1.value[1] # blocks1.value[2]
  /\ result_std.value = Zero

(***************************************************************************)
(* Properties of the comparators, checked under SpecCmp.                   *)
(***************************************************************************)
gridA == blocks1.value
gridB == blocks2.value

Paired == Min(Len(gridA), Len(gridB))

\* the sum over i < min(m, n) and the three channels of (B[i][c] - A[i][c])^2
PairedSquares(a, b) ==
  SetSum((1 .. Min(Len(a), Len(b))) \X (1 .. Channels),
         [ e \in (1 .. Min(Len(a), Len(b))) \X (1 .. Channels) |->
             (b[e[1]][e[2]] - a[e[1]][e[2]]) * (b[e[1]][e[2]] - a[e[1]][e[2]]) ])

\* C1: when both grids hold a multiple of 4 blocks, of equal or of
\* different lengths, the 4-lane comparator returns the score the scalar
\* comparator returns (the same number; for an empty grid both return the
\* NaN of 0.0 / 0.0).
C1_GlamEqualsScalar ==
  (result_std # NotCalled /\ result_simd # NotCalled
     /\ Len(gridA) % 4 = 0 /\ Len(gridB) % 4 = 0) =>
    /\ result_simd.kind = "return"
    /\ result_std.kind = "return"
    /\ \/ F64Eq(result_simd.value, result_std.value)
       \/ (Paired = 0 /\ result_simd.value = NaN /\ result_std.value = NaN)

\* grids of 4 and of 8 blocks that differ, both comparators called
C1_Witness ==
  /\ result_std # NotCalled /\ result_simd # NotCalled
  /\ Len(gridA) = 4 /\ Len(gridB) = 8
  /\ result_simd.kind = "return"
  /\ result_simd.value.class = "finite" /\ result_simd.value.num > 0
  /\ gridA[1] # gridA[2]

\* C7: when a grid's block count is not a multiple of 4 the 4-lane
\* comparator fails on its length assertion before any lane group is
\* accumulated and returns no score.
C7_MisalignedIsRejected ==
  (result_simd # NotCalled /\ (Len(gridA) % 4 # 0 \/ Len(gridB) % 4 # 0)) =>
    /\ result_simd.kind = "panic"
    /\ result_simd.site \in { "assert_eq img1.len()%4", "assert_eq img2.len()%4" }
    /\ result_simd.done = 0

\* only the second grid is misaligned and the zipped bytes would fill whole
\* lane groups
C7_Witness ==
  /\ result_simd # NotCalled
  /\ Len(gridA) = 4 /\ Len(gridB) = 5
  /\ result_simd.kind = "panic"

\* the grid g with its block at position k replaced by v
Replaced(g, k, v) == [g EXCEPT ![k] = v]

\* C9: the scalar comparator pairs blocks by position and uses the first
\* min(m, n) of each grid: the score is the sum of the squared channel
\* differences of those pairs divided by 3 * min(m, n); replacing or
\* appending blocks past min(m, n) in the longer grid changes nothing, and
\* no error is raised.
C9_ScoreUsesPairedPrefix ==
  (result_std # NotCalled) =>
    /\ result_std.kind = "return"
    /\ result_std.value = F64Div(PairedSquares(gridA, gridB), 3 * Paired)
    /\ \A v \in BlockValues \cup { <<7, 7, 7>> } :
         /\ Len(gridB) >= Len(gridA) =>
              /\ compare_images_chisquare(gridA, Append(gridB, v)) = result_std
              /\ \A k \in Paired + 1 .. Len(gridB) :
                   compare_images_chisquare(gridA, Replaced(gridB, k, v)) = result_std
         /\ Len(gridA) >= Len(gridB) =>
              /\ compare_images_chisquare(Append(gridA, v), gridB) = result_std
              /\ \A k \in Paired + 1 .. Len(gridA) :
                   compare_images_chisquare(Replaced(gridA, k, v), gridB) = result_std

\* grids of 3 and of 5 blocks with a non-zero score
C9_Witness ==
  /\ result_std.kind = "return"
  /\ Len(gridA) = 3 /\ Len(gridB) = 5
  /\ result_std.value.class = "finite" /\ result_std.value.num > 0

\* C10: for grids of any lengths, zero included, the divisor total_count is
\* non-zero at the final division and the score is a non-negative real.
C10_ScoreIsNonNegativeReal ==
  (result_std # NotCalled) =>
    /\ result_std.kind = "return"
    /\ Channels * Paired # 0
    /\ result_std.value.class = "finite"
    /\ result_std.value.num >= 0 /\ result_std.value.den > 0

(***************************************************************************)
(* Property of smallest_dimensions, checked under SpecDim.                 *)
(***************************************************************************)
\* C6: selector 0 with the first raster's dimensions exactly when the
\* product width1 * height1 is less than width2 * height2, else selector 1
\* with the second raster's dimensions (so also on a tie).
C6_SmallerAreaSelected ==
  (smallest # NotCalled) =>
    smallest =
      Returned(IF LimbsLess(WideMul(dim1.width, dim1.height), WideMul(dim2.width, dim2.height))
                 THEN << 0, dim1.width, dim1.height >>
                 ELSE << 1, dim2.width, dim2.height >>)

====
